---- MODULE Spec2Model ----
(***************************************************************************)
(* Model of the risk engine of src/app.js (VNI Pediatrica): the parsers    *)
(* safeNum / parseFiO2 / toMonths, the derived metrics calcSF / pctChange  *)
(* and computeRisk (score, tier, badge, notes, actions, top factors).      *)
(*                                                                         *)
(* Raw form values are strings, modelled as sequences of one-character     *)
(* strings.  JavaScript numbers are modelled as exact rationals            *)
(* [n |-> numerator, d |-> denominator > 0] in lowest terms; the value     *)
(* null is the record Null, whose denominator is 0.                        *)
(***************************************************************************)
EXTENDS Integers, Sequences, FiniteSets

VARIABLES d, out, pc, saved, history, pushed, now, loads,
          swSupported, checked, pwaFlag, registered, calls, rejected, pill

\* the snapshot, the result and the position of the evaluation
engineVars == <<d, out, pc>>

\* local storage (LS_KEY, LS_HISTORY), the entries handed to pushHistory,
\* the clock, and the number of times the form was replaced
storeVars == <<saved, history, pushed, now, loads>>

\* the offline toggle: whether navigator has serviceWorker, togglePwa.checked,
\* the LS_PWA item, whether a registration exists, the enableSW calls made,
\* whether a register() was rejected, and the status pill
swVars == <<swSupported, checked, pwaFlag, registered, calls, rejected, pill>>

vars == <<engineVars, storeVars, swVars>>

(***************************************************************************)
(* Rational arithmetic (the operators +, -, *, /, <, >= of the source).    *)
(***************************************************************************)
Null == [n |-> 0, d |-> 0]

IsNull(x) == x.d = 0

Abs(i) == IF i < 0 THEN -i ELSE i

RECURSIVE GCD(_, _)
GCD(a, b) == IF b = 0 THEN a ELSE GCD(b, a % b)

\* the rational p/q, q # 0, in lowest terms with a positive denominator
Rat(p, q) ==
    LET g == GCD(Abs(p), Abs(q))
        s == IF q < 0 THEN -1 ELSE 1
    IN  [n |-> s * (p \div g), d |-> s * (q \div g)]

FromInt(i) == [n |-> i, d |-> 1]

Add(x, y) == Rat(x.n * y.d + y.n * x.d, x.d * y.d)

Sub(x, y) == Rat(x.n * y.d - y.n * x.d, x.d * y.d)

Mul(x, y) == Rat(x.n * y.n, x.d * y.d)

\* x / y for y # 0
Div(x, y) == Rat(x.n * y.d, x.d * y.n)

Lt(x, y) == x.n * y.d < y.n * x.d

Le(x, y) == x.n * y.d <= y.n * x.d

Gt(x, y) == Lt(y, x)

Ge(x, y) == Le(y, x)

\* Math.round: the integer nearest to x, halves rounded towards +infinity
MathRound(x) == (2 * x.n + x.d) \div (2 * x.d)

\* Number.prototype.toFixed(0): nearest integer, halves away from zero
toFixed0(x) ==
    IF x.n >= 0 THEN (2 * x.n + x.d) \div (2 * x.d)
    ELSE -((2 * (-x.n) + x.d) \div (2 * x.d))

(***************************************************************************)
(* Strings and Number(s).                                                  *)
(***************************************************************************)
Digits == {"0", "1", "2", "3", "4", "5", "6", "7", "8", "9"}

DigitVal(c) ==
    CASE c = "0" -> 0 [] c = "1" -> 1 [] c = "2" -> 2 [] c = "3" -> 3
      [] c = "4" -> 4 [] c = "5" -> 5 [] c = "6" -> 6 [] c = "7" -> 7
      [] c = "8" -> 8 [] c = "9" -> 9

\* the value null / undefined of a field that is not a string
Undefined == <<"undefined">>

RECURSIVE TrimStart(_)
TrimStart(s) ==
    IF s # <<>> /\ Head(s) = " " THEN TrimStart(Tail(s)) ELSE s

RECURSIVE TrimEnd(_)
TrimEnd(s) ==
    IF s # <<>> /\ s[Len(s)] = " " THEN TrimEnd(SubSeq(s, 1, Len(s) - 1)) ELSE s

\* String.prototype.trim
Trim(s) == TrimEnd(TrimStart(s))

\* s.replace(",", "."): only the first comma is replaced
ReplaceComma(s) ==
    LET commas == {i \in 1..Len(s) : s[i] = ","}
    IN  IF commas = {} THEN s
        ELSE LET first == CHOOSE i \in commas : \A j \in commas : i <= j
             IN  [s EXCEPT ![first] = "."]

RECURSIVE DigitsToInt(_)
DigitsToInt(s) ==
    IF s = <<>> THEN 0
    ELSE 10 * DigitsToInt(SubSeq(s, 1, Len(s) - 1)) + DigitVal(s[Len(s)])

RECURSIVE Pow10(_)
Pow10(k) == IF k = 0 THEN 1 ELSE 10 * Pow10(k - 1)

\* Number(s) followed by Number.isFinite, over the alphabet of digits, ".",
\* ",", "+", "-", " " and letters: a signed decimal literal, else NaN (Null)
Number(s) ==
    LET signed == s # <<>> /\ s[1] \in {"-", "+"}
        body   == IF signed THEN Tail(s) ELSE s
        dots   == {i \in 1..Len(body) : body[i] = "."}
        dot    == IF dots = {} THEN Len(body) + 1 ELSE CHOOSE i \in dots : TRUE
        ip     == SubSeq(body, 1, dot - 1)
        fp     == SubSeq(body, dot + 1, Len(body))
        wellFormed ==
            /\ Cardinality(dots) <= 1
            /\ \A i \in 1..Len(body) : body[i] \in Digits \cup {"."}
            /\ Len(ip) + Len(fp) >= 1
        mag    == Rat(DigitsToInt(ip \o fp), Pow10(Len(fp)))
    IN  IF ~wellFormed THEN Null
        ELSE IF signed /\ s[1] = "-" THEN Rat(-mag.n, mag.d) ELSE mag

safeNum(x) ==
    IF x = Undefined THEN Null
    ELSE LET s == ReplaceComma(Trim(x))
         IN  IF s = <<>> THEN Null ELSE Number(s)

\* parseFiO2 with the lower edge of the percentage range included
parseFiO2Inclusive(x) ==
    LET n == safeNum(x)
    IN  IF IsNull(n) THEN Null
        ELSE IF Ge(n, FromInt(1)) /\ Le(n, FromInt(100)) THEN Div(n, FromInt(100))
        ELSE n

parseFiO2(x) ==
    LET n == safeNum(x)
    IN  IF IsNull(n) THEN Null
        ELSE IF Gt(n, FromInt(1)) /\ Le(n, FromInt(100)) THEN Div(n, FromInt(100))
        ELSE n

Max(a, b) == IF a >= b THEN a ELSE b

Min(a, b) == IF a <= b THEN a ELSE b

\* clamp without its upper bound
clampLowerOnly(n, a, b) == Max(a, n)

clamp(n, a, b) == Max(a, Min(b, n))

\* 30.4375 days per month
DaysPerMonth == Rat(304375, 10000)

toMonths(ageValue, unit) ==
    LET v == safeNum(ageValue)
    IN  IF IsNull(v) THEN Null
        ELSE IF unit = "days" THEN Div(v, DaysPerMonth)
        ELSE IF unit = "years" THEN Mul(v, FromInt(12))
        ELSE v

calcSF(spo2, fio2) ==
    LET s == safeNum(spo2)
        f == parseFiO2(fio2)
    IN  IF IsNull(s) \/ IsNull(f) \/ Le(f, FromInt(0)) THEN Null
        ELSE Div(s, f)

\* pctChange with the operands of the difference exchanged
pctChangeFlipped(newV, oldV) ==
    LET a == safeNum(newV)
        b == safeNum(oldV)
    IN  IF IsNull(a) \/ IsNull(b) \/ b.n = 0 THEN Null
        ELSE Mul(Div(Sub(b, a), b), FromInt(100))

pctChange(newV, oldV) ==
    LET a == safeNum(newV)
        b == safeNum(oldV)
    IN  IF IsNull(a) \/ IsNull(b) \/ b.n = 0 THEN Null
        ELSE Mul(Div(Sub(a, b), b), FromInt(100))

(***************************************************************************)
(* computeRisk.  A text is modelled by its parts: a factor label, a note   *)
(* and an action are sequences whose first element names the sentence of   *)
(* the source and whose second (when present) is the number printed in it. *)
(* The tier and badge strings are written in ASCII.                        *)
(***************************************************************************)
operationalCriteria(s) == s.cfHypox \/ s.cfWork \/ s.cfHypercap \/ s.cfIntol

\* the red-flag test with the last flag left out of the list
redFlagsFirstFour(s) == s.rfHemodyn \/ s.rfGcs \/ s.rfSecretions \/ s.rfApnea

\* the red-flag test with the operational criteria mixed into the list
redFlagsOrCriteria(s) ==
    \/ s.rfHemodyn \/ s.rfGcs \/ s.rfSecretions \/ s.rfApnea \/ s.rfPtx
    \/ s.cfHypox \/ s.cfWork \/ s.cfHypercap \/ s.cfIntol

redFlags(s) == s.rfHemodyn \/ s.rfGcs \/ s.rfSecretions \/ s.rfApnea \/ s.rfPtx

\* one entry of the factors list, as pushed by addFactor(w, label)
addFactor(w, label) == [w |-> w, label |-> label]

\* a step of the score: points added and the factors pushed with them
Step(pts, fs) == [pts |-> pts, factors |-> fs]

drrPctOf(s) ==
    IF ~IsNull(safeNum(s.rr_1)) /\ ~IsNull(safeNum(s.rr_0))
    THEN pctChange(s.rr_1, s.rr_0) ELSE Null

dhrPctOf(s) ==
    IF ~IsNull(safeNum(s.hr_1)) /\ ~IsNull(safeNum(s.hr_0))
    THEN pctChange(s.hr_1, s.hr_0) ELSE Null

dpco2Of(s) ==
    LET pco2_0 == safeNum(s.pco2_0)
        pco2_1 == safeNum(s.pco2_1)
    IN  IF ~IsNull(pco2_0) /\ ~IsNull(pco2_1) THEN Sub(pco2_1, pco2_0) ELSE Null

\* the SF step with the first cut taken as "at most 150"
scoreSF1Inclusive(sf1) ==
    IF ~IsNull(sf1) THEN
        IF Le(sf1, FromInt(150))
            THEN Step(40, <<addFactor(40, <<"SF 1-2 h < 150", toFixed0(sf1)>>)>>)
        ELSE IF Lt(sf1, FromInt(193))
            THEN Step(30, <<addFactor(30, <<"SF 1-2 h < 193", toFixed0(sf1)>>)>>)
        ELSE IF Lt(sf1, FromInt(220))
            THEN Step(18, <<addFactor(18, <<"SF 1-2 h 193-219", toFixed0(sf1)>>)>>)
        ELSE IF Lt(sf1, FromInt(260))
            THEN Step(10, <<addFactor(10, <<"SF 1-2 h 220-259", toFixed0(sf1)>>)>>)
        ELSE Step(3, <<>>)
    ELSE Step(10, <<>>)

\* the SF step with the weights of two neighbouring bands exchanged
scoreSF1Swapped(sf1) ==
    IF ~IsNull(sf1) THEN
        IF Lt(sf1, FromInt(150))
            THEN Step(40, <<addFactor(40, <<"SF 1-2 h < 150", toFixed0(sf1)>>)>>)
        ELSE IF Lt(sf1, FromInt(193))
            THEN Step(18, <<addFactor(18, <<"SF 1-2 h < 193", toFixed0(sf1)>>)>>)
        ELSE IF Lt(sf1, FromInt(220))
            THEN Step(30, <<addFactor(30, <<"SF 1-2 h 193-219", toFixed0(sf1)>>)>>)
        ELSE IF Lt(sf1, FromInt(260))
            THEN Step(10, <<addFactor(10, <<"SF 1-2 h 220-259", toFixed0(sf1)>>)>>)
        ELSE Step(3, <<>>)
    ELSE Step(10, <<>>)

\* 1) SF at 1-2 h
scoreSF1(sf1) ==
    IF ~IsNull(sf1) THEN
        IF Lt(sf1, FromInt(150))
            THEN Step(40, <<addFactor(40, <<"SF 1-2 h < 150", toFixed0(sf1)>>)>>)
        ELSE IF Lt(sf1, FromInt(193))
            THEN Step(30, <<addFactor(30, <<"SF 1-2 h < 193", toFixed0(sf1)>>)>>)
        ELSE IF Lt(sf1, FromInt(220))
            THEN Step(18, <<addFactor(18, <<"SF 1-2 h 193-219", toFixed0(sf1)>>)>>)
        ELSE IF Lt(sf1, FromInt(260))
            THEN Step(10, <<addFactor(10, <<"SF 1-2 h 220-259", toFixed0(sf1)>>)>>)
        ELSE Step(3, <<>>)
    ELSE Step(10, <<>>)

\* 2) change in RR
scoreRR(drrPct) ==
    IF ~IsNull(drrPct) THEN
        IF Ge(drrPct, FromInt(0))
            THEN Step(18, <<addFactor(18, <<"FR nao melhorou / piorou">>)>>)
        ELSE IF Gt(drrPct, FromInt(-10))
            THEN Step(12, <<addFactor(12, <<"Queda de FR < 10%">>)>>)
        ELSE IF Gt(drrPct, FromInt(-20)) THEN Step(7, <<>>)
        ELSE Step(2, <<>>)
    ELSE Step(6, <<>>)

\* 3) change in HR
scoreHR(dhrPct) ==
    IF ~IsNull(dhrPct) THEN
        IF Ge(dhrPct, FromInt(0)) THEN Step(10, <<>>)
        ELSE IF Gt(dhrPct, FromInt(-5)) THEN Step(7, <<>>)
        ELSE IF Gt(dhrPct, FromInt(-10)) THEN Step(4, <<>>)
        ELSE Step(1, <<>>)
    ELSE Step(3, <<>>)

\* the age step without its null test: null < 6 is true in JavaScript
scoreAgeNoNullTest(ageM) ==
    IF IsNull(ageM) \/ Lt(ageM, FromInt(6))
        THEN Step(10, <<addFactor(10, <<"Idade < 6 meses">>)>>)
    ELSE IF Lt(ageM, FromInt(12)) THEN Step(6, <<>>)
    ELSE Step(2, <<>>)

\* 4) age risk
scoreAge(ageM) ==
    IF ~IsNull(ageM) THEN
        IF Lt(ageM, FromInt(6))
            THEN Step(10, <<addFactor(10, <<"Idade < 6 meses">>)>>)
        ELSE IF Lt(ageM, FromInt(12)) THEN Step(6, <<>>)
        ELSE Step(2, <<>>)
    ELSE Step(4, <<>>)

\* 5) ARF type
scoreArf(arfType) ==
    IF arfType = "type1"
        THEN Step(10, <<addFactor(10, <<"IRA hipoxemica (tipo 1)">>)>>)
    ELSE Step(0, <<>>)

\* 5) diagnosis
scoreDiag(diag) ==
    IF diag = "ards" THEN Step(12, <<addFactor(12, <<"ARDS">>)>>)
    ELSE IF diag = "pneumonia" THEN Step(8, <<addFactor(8, <<"Pneumonia">>)>>)
    ELSE Step(0, <<>>)

\* 6) FiO2 at initiation: the source reads the field with safeNum
scoreFiO2(raw) ==
    LET fio2_0 == safeNum(raw)
    IN  IF ~IsNull(fio2_0) THEN
            IF Ge(fio2_0, Rat(8, 10)) THEN Step(8, <<>>)
            ELSE IF Ge(fio2_0, Rat(6, 10)) THEN Step(5, <<>>)
            ELSE IF Ge(fio2_0, Rat(4, 10)) THEN Step(3, <<>>)
            ELSE Step(1, <<>>)
        ELSE Step(0, <<>>)

\* 7) PRISM
scorePrism(prism) ==
    IF ~IsNull(prism) THEN
        IF Ge(prism, FromInt(10)) THEN Step(10, <<>>)
        ELSE IF Ge(prism, FromInt(5)) THEN Step(6, <<>>)
        ELSE IF Ge(prism, FromInt(1)) THEN Step(3, <<>>)
        ELSE Step(0, <<>>)
    ELSE Step(0, <<>>)

\* 8) IPAP at 1-2 h
scoreIpap(ipap) ==
    IF ~IsNull(ipap) THEN
        IF Ge(ipap, FromInt(18)) THEN Step(6, <<>>)
        ELSE IF Ge(ipap, FromInt(14)) THEN Step(3, <<>>)
        ELSE Step(0, <<>>)
    ELSE Step(0, <<>>)

\* 9) pCO2 trend
scorePco2(dpco2) ==
    IF ~IsNull(dpco2) THEN
        IF Ge(dpco2, FromInt(5)) THEN Step(6, <<>>)
        ELSE IF Ge(dpco2, FromInt(0)) THEN Step(3, <<>>)
        ELSE Step(1, <<>>)
    ELSE Step(0, <<>>)

\* 9) pH trend
scorePh(ph0, ph1) ==
    IF ~IsNull(ph0) /\ ~IsNull(ph1) THEN
        IF Lt(ph1, Sub(ph0, Rat(2, 100))) THEN Step(4, <<>>)
        ELSE IF Lt(ph1, Add(ph0, Rat(1, 100))) THEN Step(2, <<>>)
        ELSE Step(0, <<>>)
    ELSE Step(0, <<>>)

\* the steps of the score, in the order the source evaluates them
scoreSteps(s) ==
    << scoreSF1(calcSF(s.spo2_1, s.fio2_1)),
       scoreRR(drrPctOf(s)),
       scoreHR(dhrPctOf(s)),
       scoreAge(toMonths(s.ageValue, s.ageUnit)),
       scoreArf(s.arfType),
       scoreDiag(s.diag),
       scoreFiO2(s.fio2_0),
       scorePrism(safeNum(s.prism)),
       scoreIpap(safeNum(s.ipap_1)),
       scorePco2(dpco2Of(s)),
       scorePh(safeNum(s.ph_0), safeNum(s.ph_1)) >>

RECURSIVE SumPts(_)
SumPts(steps) ==
    IF steps = <<>> THEN 0 ELSE steps[1].pts + SumPts(Tail(steps))

RECURSIVE AllFactors(_)
AllFactors(steps) ==
    IF steps = <<>> THEN <<>> ELSE steps[1].factors \o AllFactors(Tail(steps))

\* the running score before the red-flag override
accumulated(s) == SumPts(scoreSteps(s))

\* the override as a hard set to 85
overrideScoreHardSet(score, rf) == IF rf THEN 85 ELSE score

\* red flags override
overrideScore(score, rf) == IF rf THEN Max(score, 85) ELSE score

overrideFactors(fs, rf) ==
    IF rf THEN Append(fs, addFactor(50, <<"Red flags clinicas">>)) ELSE fs

\* out.score
finalScore(s) ==
    clamp(MathRound(FromInt(overrideScore(accumulated(s), redFlags(s)))), 0, 100)

\* tiering with strict comparisons
tierOfStrict(score) ==
    IF score > 85 THEN [tier |-> "Muito alto", badge |-> "ALTO RISCO"]
    ELSE IF score > 65 THEN [tier |-> "Alto", badge |-> "RISCO ^"]
    ELSE IF score > 45 THEN [tier |-> "Intermedio", badge |-> "RISCO <->"]
    ELSE [tier |-> "Baixo", badge |-> "RISCO v"]

\* tiering
tierOf(score) ==
    IF score >= 85 THEN [tier |-> "Muito alto", badge |-> "ALTO RISCO"]
    ELSE IF score >= 65 THEN [tier |-> "Alto", badge |-> "RISCO ^"]
    ELSE IF score >= 45 THEN [tier |-> "Intermedio", badge |-> "RISCO <->"]
    ELSE [tier |-> "Baixo", badge |-> "RISCO v"]

\* Contexto de oxigenacao: the parts joined by the source; <<>> stands for null
oxyCtxOf(sf1, fio2_1) ==
    LET a == IF IsNull(sf1) THEN <<>>
             ELSE IF Lt(sf1, FromInt(150)) THEN <<"SF muito baixo">>
             ELSE IF Lt(sf1, FromInt(193)) THEN <<"SF baixo (<193)">>
             ELSE <<"SF aceitavel">>
        b == IF IsNull(fio2_1) THEN <<>>
             ELSE IF Ge(fio2_1, Rat(7, 10)) THEN <<"FiO2 alta (>=0.70)">>
             ELSE IF Ge(fio2_1, Rat(5, 10)) THEN <<"FiO2 moderada (0.50-0.69)">>
             ELSE <<"FiO2 baixa/moderada (<0.50)">>
    IN  a \o b

\* keeps the elements of a sequence of optional parts that are present
RECURSIVE Flatten(_)
Flatten(parts) ==
    IF parts = <<>> THEN <<>> ELSE parts[1] \o Flatten(Tail(parts))

\* out.explain: the notes pushed, or the single fallback sentence
explainOf(s, sf1, drrPct, ageM, prism) ==
    LET notes == Flatten(<<
            IF redFlags(s) THEN << <<"Ha red flags clinicas assinaladas">> >> ELSE <<>>,
            IF operationalCriteria(s)
                THEN << <<"Criterios operacionais de falencia assinalados">> >> ELSE <<>>,
            IF ~IsNull(sf1) /\ Lt(sf1, FromInt(193))
                THEN << <<"SF a 1-2 h < 193", toFixed0(sf1)>> >> ELSE <<>>,
            IF ~IsNull(drrPct) /\ Gt(drrPct, FromInt(-10))
                THEN << <<"Reducao de FR < 10% (ou pior)">> >> ELSE <<>>,
            IF ~IsNull(ageM) /\ Lt(ageM, FromInt(6))
                THEN << <<"Idade < 6 meses: maior risco de falencia">> >> ELSE <<>>,
            IF s.arfType = "type1" THEN << <<"IRA hipoxemica (tipo 1): maior risco">> >> ELSE <<>>,
            IF s.diag = "ards" THEN << <<"ARDS: associada a maiores taxas de falencia">> >> ELSE <<>>,
            IF ~IsNull(prism) /\ Ge(prism, FromInt(5))
                THEN << <<"PRISM elevado associa-se a falencia">> >> ELSE <<>> >>)
    IN  IF notes # <<>> THEN notes
        ELSE << <<"Sem sinais fortes de alto risco com os dados fornecidos.">> >>

\* out.actions
actionsOf(s, score, sf1) ==
    Flatten(<<
        IF operationalCriteria(s) THEN <<"Ha gatilhos assinalados">> ELSE <<>>,
        IF score >= 65 \/ redFlags(s)
            THEN <<"Monitorizacao continua e reavaliacao frequente",
                   "Verificar interface/leaks, sincronizacao, conforto",
                   "Reavaliar causa reversivel e terapeutica especifica",
                   "Considerar precocemente equipa e logistica de intubacao">>
        ELSE IF score >= 45
            THEN <<"Reavaliar resposta nas proximas 30-60 min",
                   "Optimizar interface e parametros">>
        ELSE <<"Manter VNI com vigilancia e reavaliacao seriada">>,
        IF ~IsNull(sf1) /\ Lt(sf1, FromInt(193))
            THEN <<"Se nao atingir SF ~190 apos 1 h de VNI">> ELSE <<>> >>)

\* factors.sort((a,b) => b.w - a.w): a stable sort, heaviest first
\* the insertion that puts a factor ahead of the earlier ones of its weight
RECURSIVE InsertByWeightStrict(_, _)
InsertByWeightStrict(sorted, f) ==
    IF sorted = <<>> THEN <<f>>
    ELSE IF sorted[1].w > f.w
        THEN <<sorted[1]>> \o InsertByWeightStrict(Tail(sorted), f)
    ELSE <<f>> \o sorted

RECURSIVE InsertByWeight(_, _)
InsertByWeight(sorted, f) ==
    IF sorted = <<>> THEN <<f>>
    ELSE IF sorted[1].w >= f.w THEN <<sorted[1]>> \o InsertByWeight(Tail(sorted), f)
    ELSE <<f>> \o sorted

RECURSIVE SortFactors(_)
SortFactors(fs) ==
    IF fs = <<>> THEN <<>>
    ELSE InsertByWeight(SortFactors(SubSeq(fs, 1, Len(fs) - 1)), fs[Len(fs)])

\* factors.slice(0,3).map(x => x.label)
topFactorsOf(fs) ==
    LET sorted == SortFactors(fs)
    IN  [i \in 1..Min(3, Len(sorted)) |-> sorted[i].label]

\* x.toFixed(0) of a number that may be null: the printed integer, or Null for the dash
Fixed0OrDash(x) == IF IsNull(x) THEN Null ELSE FromInt(toFixed0(x))

\* out.brief: the parts joined with " | "
briefOf(sf1, drrPct, dhrPct) ==
    Flatten(<<
        IF ~IsNull(sf1) THEN << [tag |-> "SF1-2h", val |-> toFixed0(sf1)] >> ELSE <<>>,
        IF ~IsNull(drrPct) THEN << [tag |-> "dFR", val |-> toFixed0(drrPct)] >> ELSE <<>>,
        IF ~IsNull(dhrPct) THEN << [tag |-> "dFC", val |-> toFixed0(dhrPct)] >> ELSE <<>> >>)

\* out.summary: the lines joined with "\n"; ageM.toFixed(1) is kept in tenths
summaryOf(s, r, ageM, prism) ==
    Flatten(<<
        << [tag |-> "title", txt |-> <<>>, vals |-> <<>>] >>,
        << [tag |-> "patient",
            txt |-> <<IF s.arfType = "type1" THEN "Hipoxemica (tipo 1)"
                      ELSE "Hipercapnica/hipoventilacao (tipo 2)", s.diag>>,
            vals |-> <<IF IsNull(ageM) THEN Null
                       ELSE Rat(toFixed0(Mul(ageM, FromInt(10))), 10)>>] >>,
        IF ~IsNull(prism)
            THEN << [tag |-> "PRISM III-24", txt |-> <<>>, vals |-> <<prism>>] >> ELSE <<>>,
        << [tag |-> "metrics", txt |-> <<>>,
            vals |-> <<Fixed0OrDash(r.sf0), Fixed0OrDash(r.sf1),
                       Fixed0OrDash(r.drrPct), Fixed0OrDash(r.dhrPct)>>] >>,
        IF ~IsNull(r.dpco2)
            THEN << [tag |-> "dpCO2", txt |-> <<IF r.dpco2.n > 0 THEN "+" ELSE "">>,
                     vals |-> <<FromInt(toFixed0(r.dpco2))>>] >> ELSE <<>>,
        << [tag |-> "score", txt |-> <<r.tier>>, vals |-> <<FromInt(r.score)>>] >>,
        IF redFlags(s)
            THEN << [tag |-> "Red flags: SIM", txt |-> <<>>, vals |-> <<>>] >> ELSE <<>> >>)

computeRisk(s) ==
    LET sf0    == calcSF(s.spo2_0, s.fio2_0)
        sf1    == calcSF(s.spo2_1, s.fio2_1)
        drrPct == drrPctOf(s)
        dhrPct == dhrPctOf(s)
        dpco2  == dpco2Of(s)
        ageM   == toMonths(s.ageValue, s.ageUnit)
        prism  == safeNum(s.prism)
        score  == finalScore(s)
        t      == tierOf(score)
        factors == overrideFactors(AllFactors(scoreSteps(s)), redFlags(s))
        core   == [sf0 |-> sf0, sf1 |-> sf1, drrPct |-> drrPct, dhrPct |-> dhrPct,
                   dpco2 |-> dpco2, score |-> score, tier |-> t.tier]
    IN  [sf0 |-> sf0, sf1 |-> sf1,
         drrPct |-> drrPct, dhrPct |-> dhrPct, dpco2 |-> dpco2,
         oxyCtx |-> oxyCtxOf(sf1, parseFiO2(s.fio2_1)),
         score |-> score,
         tier |-> t.tier,
         badge |-> t.badge,
         explain |-> explainOf(s, sf1, drrPct, ageM, prism),
         actions |-> actionsOf(s, score, sf1),
         summary |-> summaryOf(s, core, ageM, prism),
         topFactors |-> topFactorsOf(factors),
         brief |-> briefOf(sf1, drrPct, dhrPct)]

(***************************************************************************)
(* Snapshots: the object gather() hands to computeRisk.                    *)
(***************************************************************************)
RedFlagFields == {"rfHemodyn", "rfGcs", "rfSecretions", "rfApnea", "rfPtx"}

CriteriaFields == {"cfHypox", "cfWork", "cfHypercap", "cfIntol"}

NumericFields ==
    {"ageValue", "prism", "spo2_0", "fio2_0", "epap_0", "rr_0", "hr_0", "ph_0",
     "pco2_0", "spo2_1", "fio2_1", "rr_1", "hr_1", "ipap_1", "epap_1", "ph_1",
     "pco2_1"}

AgeUnits == {"days", "months", "years"}

ArfTypes == {"type1", "type2"}

Diagnoses == {"bronchiolitis", "pneumonia", "ards", "other"}

\* the raw texts tried in each numeric field
RawTexts(k) ==
    CASE k = "ageValue" ->
        {<<>>, <<"3">>, <<"8">>, <<"2", "4">>, <<"9", "0">>,
         <<"2", "0", "0">>, <<"x">>,
         <<"1", "8", "2">>, <<"1", "8", "3">>, <<"1", "8", "2", ".", "6", "2">>, Undefined}
      [] k = "prism" ->
        {<<>>, <<"0">>, <<"3">>, <<"7">>, <<"1", "2">>}
      [] k = "spo2_0" ->
        {<<>>, <<"8", "8">>, <<"9", "5">>}
      [] k = "fio2_0" ->
        {<<>>, <<"0", ".", "4">>, <<"4", "0">>, <<"0", ",", "4">>,
         <<" ", "4", "0", " ">>, <<"0", ".", "2", "1">>,
         <<"0", ".", "6", "0">>, <<"6", "0">>, <<"0", ".", "8">>,
         <<"8", "0">>, <<"1">>, <<"1", "0", "0">>, <<"0">>,
         <<"1", "5", "0">>, <<"-", "5">>, <<".">>,
         <<" ", "0", ",", "4", "0", " ">>}
      [] k = "epap_0" ->
        {<<>>, <<"6">>}
      [] k = "rr_0" ->
        {<<>>, <<"6", "0">>, <<"0">>}
      [] k = "hr_0" ->
        {<<>>, <<"1", "6", "0">>, <<"0">>}
      [] k = "ph_0" ->
        {<<>>, <<"7", ".", "3", "0">>}
      [] k = "pco2_0" ->
        {<<>>, <<"5", "0">>}
      [] k = "spo2_1" ->
        {<<>>, <<"9", "0">>, <<"9", "4">>, <<"9", "9">>, <<"x">>,
         <<"6", "4", ".", "5">>, <<"6", "4", ".", "7", "5">>, <<"6", "5">>,
         <<"6", "4", ".", "7", "5", "0">>}
      [] k = "fio2_1" ->
        {<<>>, <<"6", "0">>, <<"0", ".", "6", "0">>, <<"0", ".", "6", "1">>,
         <<"0", ".", "4", "5">>, <<"0", ".", "5">>, <<"0", ".", "7">>,
         <<"0", ".", "3", "5">>, <<"0", ".", "2", "1">>, <<"2", "1">>,
         <<"0">>, <<"1", "5", "0">>, <<"-", "5">>,
         <<"1", ",", "0", ",", "0">>, <<"0", ".", "2", "5">>,
         <<"+", "0", ".", "6", "0", "0">>}
      [] k = "rr_1" ->
        {<<>>, <<"6", "0">>, <<"5", "7">>, <<"5", "1">>, <<"4", "8">>,
         <<"4", "5">>, <<"6", "6">>}
      [] k = "hr_1" ->
        {<<>>, <<"1", "6", "0">>, <<"1", "5", "5">>, <<"1", "4", "7">>,
         <<"1", "4", "4">>, <<"1", "3", "0">>, <<"1", "7", "0">>}
      [] k = "ipap_1" ->
        {<<>>, <<"1", "0">>, <<"1", "4">>, <<"1", "8">>, <<"+", "2", "0">>}
      [] k = "epap_1" ->
        {<<>>, <<"7">>}
      [] k = "ph_1" ->
        {<<>>, <<"7", ".", "2", "5">>, <<"7", ".", "2", "9">>,
         <<"7", ".", "3", "0">>, <<"7", ".", "3", "2">>}
      [] k = "pco2_1" ->
        {<<>>, <<"4", "4">>, <<"5", "0">>, <<"5", "2">>, <<"5", "5">>}

\* the longest text typed into a field
MaxLen == 5

RawValues(k) == {v \in RawTexts(k) : Len(v) <= MaxLen}

\* fill({}): the empty form with its default selections
EmptyForm ==
    [ ageValue |-> <<>>,
      ageUnit |-> "months",
      arfType |-> "type2",
      diag |-> "bronchiolitis",
      prism |-> <<>>,
      rfHemodyn |-> FALSE,
      rfGcs |-> FALSE,
      rfSecretions |-> FALSE,
      rfApnea |-> FALSE,
      rfPtx |-> FALSE,
      cfHypox |-> FALSE,
      cfWork |-> FALSE,
      cfHypercap |-> FALSE,
      cfIntol |-> FALSE,
      spo2_0 |-> <<>>,
      fio2_0 |-> <<>>,
      epap_0 |-> <<>>,
      rr_0 |-> <<>>,
      hr_0 |-> <<>>,
      ph_0 |-> <<>>,
      pco2_0 |-> <<>>,
      spo2_1 |-> <<>>,
      fio2_1 |-> <<>>,
      rr_1 |-> <<>>,
      hr_1 |-> <<>>,
      ipap_1 |-> <<>>,
      epap_1 |-> <<>>,
      ph_1 |-> <<>>,
      pco2_1 |-> <<>> ]

\* applyPreset("bronch")
PresetBronch ==
    [ ageValue |-> <<"3">>,
      ageUnit |-> "months",
      arfType |-> "type2",
      diag |-> "bronchiolitis",
      prism |-> <<>>,
      rfHemodyn |-> FALSE,
      rfGcs |-> FALSE,
      rfSecretions |-> FALSE,
      rfApnea |-> FALSE,
      rfPtx |-> FALSE,
      cfHypox |-> FALSE,
      cfWork |-> FALSE,
      cfHypercap |-> FALSE,
      cfIntol |-> FALSE,
      spo2_0 |-> <<"9", "0">>,
      fio2_0 |-> <<"0", ".", "6", "0">>,
      epap_0 |-> <<"6">>,
      rr_0 |-> <<"6", "5">>,
      hr_0 |-> <<"1", "6", "5">>,
      ph_0 |-> <<"7", ".", "1", "8">>,
      pco2_0 |-> <<"6", "5">>,
      spo2_1 |-> <<"9", "4">>,
      fio2_1 |-> <<"0", ".", "4", "5">>,
      rr_1 |-> <<"5", "0">>,
      hr_1 |-> <<"1", "4", "5">>,
      ipap_1 |-> <<"1", "4">>,
      epap_1 |-> <<"7">>,
      ph_1 |-> <<"7", ".", "2", "6">>,
      pco2_1 |-> <<"5", "5">> ]

\* applyPreset("ards")
PresetARDS ==
    [ ageValue |-> <<"2", "4">>,
      ageUnit |-> "months",
      arfType |-> "type1",
      diag |-> "ards",
      prism |-> <<>>,
      rfHemodyn |-> FALSE,
      rfGcs |-> FALSE,
      rfSecretions |-> FALSE,
      rfApnea |-> FALSE,
      rfPtx |-> FALSE,
      cfHypox |-> FALSE,
      cfWork |-> FALSE,
      cfHypercap |-> FALSE,
      cfIntol |-> FALSE,
      spo2_0 |-> <<"8", "8">>,
      fio2_0 |-> <<"0", ".", "8", "0">>,
      epap_0 |-> <<"8">>,
      rr_0 |-> <<"4", "8">>,
      hr_0 |-> <<"1", "7", "0">>,
      ph_0 |-> <<>>,
      pco2_0 |-> <<>>,
      spo2_1 |-> <<"9", "0">>,
      fio2_1 |-> <<"0", ".", "7", "5">>,
      rr_1 |-> <<"4", "6">>,
      hr_1 |-> <<"1", "6", "8">>,
      ipap_1 |-> <<"1", "8">>,
      epap_1 |-> <<"1", "0">>,
      ph_1 |-> <<>>,
      pco2_1 |-> <<>> ]

\* saturation 90 on 60% oxygen at 1-2 h, 3 months, type 2, bronchiolitis
ScenarioA ==
    [ ageValue |-> <<"3">>,
      ageUnit |-> "months",
      arfType |-> "type2",
      diag |-> "bronchiolitis",
      prism |-> <<>>,
      rfHemodyn |-> FALSE,
      rfGcs |-> FALSE,
      rfSecretions |-> FALSE,
      rfApnea |-> FALSE,
      rfPtx |-> FALSE,
      cfHypox |-> FALSE,
      cfWork |-> FALSE,
      cfHypercap |-> FALSE,
      cfIntol |-> FALSE,
      spo2_0 |-> <<>>,
      fio2_0 |-> <<>>,
      epap_0 |-> <<>>,
      rr_0 |-> <<>>,
      hr_0 |-> <<>>,
      ph_0 |-> <<>>,
      pco2_0 |-> <<>>,
      spo2_1 |-> <<"9", "0">>,
      fio2_1 |-> <<"6", "0">>,
      rr_1 |-> <<>>,
      hr_1 |-> <<>>,
      ipap_1 |-> <<>>,
      epap_1 |-> <<>>,
      ph_1 |-> <<>>,
      pco2_1 |-> <<>> ]

\* every red flag set, everything else empty
ScenarioB ==
    [ ageValue |-> <<>>,
      ageUnit |-> "months",
      arfType |-> "type2",
      diag |-> "bronchiolitis",
      prism |-> <<>>,
      rfHemodyn |-> TRUE,
      rfGcs |-> TRUE,
      rfSecretions |-> TRUE,
      rfApnea |-> TRUE,
      rfPtx |-> TRUE,
      cfHypox |-> FALSE,
      cfWork |-> FALSE,
      cfHypercap |-> FALSE,
      cfIntol |-> FALSE,
      spo2_0 |-> <<>>,
      fio2_0 |-> <<>>,
      epap_0 |-> <<>>,
      rr_0 |-> <<>>,
      hr_0 |-> <<>>,
      ph_0 |-> <<>>,
      pco2_0 |-> <<>>,
      spo2_1 |-> <<>>,
      fio2_1 |-> <<>>,
      rr_1 |-> <<>>,
      hr_1 |-> <<>>,
      ipap_1 |-> <<>>,
      epap_1 |-> <<>>,
      ph_1 |-> <<>>,
      pco2_1 |-> <<>> ]

\* every factor in its heaviest band
Sickest ==
    [ ageValue |-> <<"2">>,
      ageUnit |-> "months",
      arfType |-> "type1",
      diag |-> "ards",
      prism |-> <<"1", "2">>,
      rfHemodyn |-> FALSE,
      rfGcs |-> FALSE,
      rfSecretions |-> FALSE,
      rfApnea |-> FALSE,
      rfPtx |-> FALSE,
      cfHypox |-> FALSE,
      cfWork |-> FALSE,
      cfHypercap |-> FALSE,
      cfIntol |-> FALSE,
      spo2_0 |-> <<"8", "5">>,
      fio2_0 |-> <<"0", ".", "9">>,
      epap_0 |-> <<"8">>,
      rr_0 |-> <<"6", "0">>,
      hr_0 |-> <<"1", "6", "0">>,
      ph_0 |-> <<"7", ".", "3", "0">>,
      pco2_0 |-> <<"5", "0">>,
      spo2_1 |-> <<"8", "6">>,
      fio2_1 |-> <<"0", ".", "9">>,
      rr_1 |-> <<"6", "2">>,
      hr_1 |-> <<"1", "6", "5">>,
      ipap_1 |-> <<"2", "0">>,
      epap_1 |-> <<"1", "0">>,
      ph_1 |-> <<"7", ".", "2", "0">>,
      pco2_1 |-> <<"6", "0">> ]

\* every factor in its lightest band
Mildest ==
    [ ageValue |-> <<"3">>,
      ageUnit |-> "years",
      arfType |-> "type2",
      diag |-> "other",
      prism |-> <<"0">>,
      rfHemodyn |-> FALSE,
      rfGcs |-> FALSE,
      rfSecretions |-> FALSE,
      rfApnea |-> FALSE,
      rfPtx |-> FALSE,
      cfHypox |-> FALSE,
      cfWork |-> FALSE,
      cfHypercap |-> FALSE,
      cfIntol |-> FALSE,
      spo2_0 |-> <<"9", "7">>,
      fio2_0 |-> <<"0", ".", "3">>,
      epap_0 |-> <<"5">>,
      rr_0 |-> <<"5", "0">>,
      hr_0 |-> <<"1", "5", "0">>,
      ph_0 |-> <<"7", ".", "3", "0">>,
      pco2_0 |-> <<"5", "0">>,
      spo2_1 |-> <<"9", "9">>,
      fio2_1 |-> <<"0", ".", "2", "5">>,
      rr_1 |-> <<"3", "8">>,
      hr_1 |-> <<"1", "3", "0">>,
      ipap_1 |-> <<"1", "0">>,
      epap_1 |-> <<"5">>,
      ph_1 |-> <<"7", ".", "3", "8">>,
      pco2_1 |-> <<"4", "2">> ]

\* an infant whose age is given in days, nothing else filled in
AgeInDays ==
    [ ageValue |-> <<"2", "0">>,
      ageUnit |-> "days",
      arfType |-> "type2",
      diag |-> "bronchiolitis",
      prism |-> <<>>,
      rfHemodyn |-> FALSE,
      rfGcs |-> FALSE,
      rfSecretions |-> FALSE,
      rfApnea |-> FALSE,
      rfPtx |-> FALSE,
      cfHypox |-> FALSE,
      cfWork |-> FALSE,
      cfHypercap |-> FALSE,
      cfIntol |-> FALSE,
      spo2_0 |-> <<>>,
      fio2_0 |-> <<>>,
      epap_0 |-> <<>>,
      rr_0 |-> <<>>,
      hr_0 |-> <<>>,
      ph_0 |-> <<>>,
      pco2_0 |-> <<>>,
      spo2_1 |-> <<>>,
      fio2_1 |-> <<>>,
      rr_1 |-> <<>>,
      hr_1 |-> <<>>,
      ipap_1 |-> <<>>,
      epap_1 |-> <<>>,
      ph_1 |-> <<>>,
      pco2_1 |-> <<>> ]

\* three labelled factors of weight 10: ratio 240, age 3 months, type 1
TiedFactors ==
    [ ageValue |-> <<"3">>,
      ageUnit |-> "months",
      arfType |-> "type1",
      diag |-> "bronchiolitis",
      prism |-> <<>>,
      rfHemodyn |-> FALSE,
      rfGcs |-> FALSE,
      rfSecretions |-> FALSE,
      rfApnea |-> FALSE,
      rfPtx |-> FALSE,
      cfHypox |-> FALSE,
      cfWork |-> FALSE,
      cfHypercap |-> FALSE,
      cfIntol |-> FALSE,
      spo2_0 |-> <<>>,
      fio2_0 |-> <<>>,
      epap_0 |-> <<>>,
      rr_0 |-> <<>>,
      hr_0 |-> <<>>,
      ph_0 |-> <<>>,
      pco2_0 |-> <<>>,
      spo2_1 |-> <<"9", "6">>,
      fio2_1 |-> <<"0", ".", "4">>,
      rr_1 |-> <<>>,
      hr_1 |-> <<>>,
      ipap_1 |-> <<>>,
      epap_1 |-> <<>>,
      ph_1 |-> <<>>,
      pco2_1 |-> <<>> ]

Scenarios ==
    {EmptyForm, PresetBronch, PresetARDS, ScenarioA, ScenarioB, Sickest, Mildest,
     AgeInDays, TiedFactors}

\* the snapshots that differ from s in one field
Edited(s) ==
    {[s EXCEPT ![k] = ~s[k]] : k \in RedFlagFields \cup CriteriaFields}
    \cup UNION {{[s EXCEPT ![k] = v] : v \in RawValues(k)} : k \in NumericFields}
    \cup {[s EXCEPT !.ageUnit = u] : u \in AgeUnits}
    \cup {[s EXCEPT !.arfType = a] : a \in ArfTypes}
    \cup {[s EXCEPT !.diag = g] : g \in Diagnoses}

\* the snapshots evaluated: each scenario and its one-field edits
Snapshots == Scenarios \cup UNION {Edited(s) : s \in Scenarios}

(***************************************************************************)
(* Local storage and the history of evaluations.  A stored item is         *)
(* modelled by the value its JSON text denotes; the items hold strings,     *)
(* booleans and integers only, which JSON.stringify and JSON.parse keep.    *)
(***************************************************************************)
\* localStorage.getItem of a key that was never set
NoItem == [present |-> FALSE, value |-> <<>>]

\* localStorage.setItem(key, JSON.stringify(value))
Item(value) == [present |-> TRUE, value |-> value]

\* the entries kept by pushHistory
HistoryLimit == 10

\* how many evaluations a run makes
MaxCalcs == 11

\* how many times a run replaces the form (preset, clear, reset, reload)
MaxLoads == 1

\* save(d): the snapshot with its savedAt time
save(s, time) == Item([data |-> s, savedAt |-> time])

loadHistory(raw) == IF ~raw.present THEN <<>> ELSE raw.value

\* pushHistory with push in place of unshift
pushHistoryAtEnd(raw, entry) ==
    LET hist    == Append(loadHistory(raw), entry)
        trimmed == SubSeq(hist, 1, Min(HistoryLimit, Len(hist)))
    IN  Item(trimmed)

\* pushHistory: the item written to LS_HISTORY
pushHistory(raw, entry) ==
    LET hist    == <<entry>> \o loadHistory(raw)
        trimmed == SubSeq(hist, 1, Min(HistoryLimit, Len(hist)))
    IN  Item(trimmed)

\* the entry the btnCalc handler pushes
historyEntry(time, r, s) ==
    [when |-> time, score |-> r.score, tier |-> r.tier, brief |-> r.brief,
     data |-> s]

\* the presets of applyPreset
Presets == [bronch |-> PresetBronch, ards |-> PresetARDS]

\* nothing stored, no evaluation made, the clock at its start
StoreInit ==
    /\ saved = NoItem
    /\ history = NoItem
    /\ pushed = <<>>
    /\ now = 0
    /\ loads = 0

(***************************************************************************)
(* The offline toggle.  An enableSW call is a record of the request and    *)
(* of the await it is suspended at; "done" is a call that has returned.    *)
(***************************************************************************)
\* how many times a run flips the toggle
MaxToggles == 3

\* setPill(text, ok)
setPill(text, ok) == [text |-> text, ok |-> ok]

\* LS_PWA as init reads it
pwaEnabled == pwaFlag = Item("1")

\* first visit: LS_PWA is not set and nothing is registered, so init leaves
\* the toggle unchecked and starts no enableSW call
SWInit ==
    /\ checked = FALSE
    /\ pwaFlag = NoItem
    /\ registered = FALSE
    /\ calls = <<>>
    /\ rejected = FALSE
    /\ pill = setPill("Offline desactivado.", TRUE)

(***************************************************************************)
(* One evaluation: a snapshot is gathered, then computeRisk is applied.    *)
(***************************************************************************)
\* the object computeRisk starts from
NoResult ==
    [sf0 |-> Null, sf1 |-> Null, drrPct |-> Null, dhrPct |-> Null, dpco2 |-> Null,
     oxyCtx |-> <<>>, score |-> 0, tier |-> "-", badge |-> "-", explain |-> <<>>,
     actions |-> <<>>, summary |-> <<>>, topFactors |-> <<>>, brief |-> <<>>]

Init ==
    /\ d \in Snapshots
    /\ out = NoResult
    /\ pc = "input"
    /\ StoreInit
    /\ swSupported = TRUE
    /\ SWInit

Compute ==
    /\ pc = "input"
    /\ out' = computeRisk(d)
    /\ pc' = "done"
    /\ UNCHANGED <<d, storeVars, swVars>>

Next == Compute

Spec == Init /\ [][Next]_vars

Done == pc = "done"

(***************************************************************************)
(* The form handlers: the form starts empty (init with nothing saved); the *)
(* clock is read by each evaluation and advances between evaluations.      *)
(***************************************************************************)
InitHistory ==
    /\ d = EmptyForm
    /\ out = NoResult
    /\ pc = "input"
    /\ StoreInit
    /\ swSupported = TRUE
    /\ SWInit

\* btnCalc: gather, save, computeRisk, renderResult, pushHistory
BtnCalc ==
    /\ now < MaxCalcs
    /\ saved' = save(d, now)
    /\ out' = computeRisk(d)
    /\ history' = pushHistory(history, historyEntry(now, out', d))
    /\ pushed' = Append(pushed, historyEntry(now, out', d))
    /\ now' = now + 1
    /\ pc' = "done"
    /\ UNCHANGED <<d, loads, swVars>>

\* btnPresetBronch, btnPresetARDS: fill(p); save(gather())
ApplyPreset(name) ==
    /\ loads < MaxLoads
    /\ d' = Presets[name]
    /\ saved' = save(Presets[name], now)
    /\ loads' = loads + 1
    /\ UNCHANGED <<out, pc, history, pushed, now, swVars>>

\* btnClearNonID: fill({}); save(gather())
ClearNonID ==
    /\ loads < MaxLoads
    /\ d' = EmptyForm
    /\ saved' = save(EmptyForm, now)
    /\ loads' = loads + 1
    /\ UNCHANGED <<out, pc, history, pushed, now, swVars>>

\* btnReset, confirmed: localStorage.removeItem(LS_KEY); fill({})
ResetForm ==
    /\ loads < MaxLoads
    /\ d' = EmptyForm
    /\ saved' = NoItem
    /\ loads' = loads + 1
    /\ UNCHANGED <<out, pc, history, pushed, now, swVars>>

\* the "Carregar" button of the i-th history line: fill(h.data); save(gather())
LoadEntry(i) ==
    /\ loads < MaxLoads
    /\ i \in 1..Len(loadHistory(history))
    /\ d' = loadHistory(history)[i].data
    /\ saved' = save(loadHistory(history)[i].data, now)
    /\ loads' = loads + 1
    /\ UNCHANGED <<out, pc, history, pushed, now, swVars>>

NextHistory ==
    \/ BtnCalc
    \/ \E name \in DOMAIN Presets : ApplyPreset(name)
    \/ ClearNonID
    \/ ResetForm
    \/ \E i \in 1..HistoryLimit : LoadEntry(i)

SpecHistory == InitHistory /\ [][NextHistory]_vars

(***************************************************************************)
(* enableSW is async and the change handler does not await it: a call runs *)
(* to its first await inside the handler, and each later piece runs when   *)
(* the promise it awaits settles, in any order with the other calls.       *)
(***************************************************************************)
InitSW ==
    /\ d = EmptyForm
    /\ out = NoResult
    /\ pc = "input"
    /\ StoreInit
    /\ swSupported \in BOOLEAN
    /\ SWInit

Call(enable, at) == [enable |-> enable, at |-> at]

\* the calls that have not returned
Pending == {i \in 1..Len(calls) : calls[i].at # "done"}

MoveTo(i, at) == calls' = [calls EXCEPT ![i].at = at]

\* togglePwa change, without serviceWorker in navigator: enableSW returns
ToggleUnsupported ==
    /\ ~swSupported
    /\ Len(calls) < MaxToggles
    /\ checked' = ~checked
    /\ calls' = Append(calls, Call(~checked, "done"))
    /\ pill' = setPill("Service Worker nao suportado.", FALSE)
    /\ UNCHANGED <<engineVars, storeVars, swSupported, pwaFlag, registered, rejected>>

\* togglePwa change to unchecked: enableSW(false) up to getRegistrations()
ToggleOff ==
    /\ swSupported
    /\ Len(calls) < MaxToggles
    /\ checked
    /\ checked' = FALSE
    /\ calls' = Append(calls, Call(FALSE, "getRegistrations"))
    /\ UNCHANGED <<engineVars, storeVars, swSupported, pwaFlag, registered, rejected, pill>>

\* togglePwa change to checked: enableSW(true) up to register("sw.js")
ToggleOn ==
    /\ swSupported
    /\ Len(calls) < MaxToggles
    /\ ~checked
    /\ checked' = TRUE
    /\ calls' = Append(calls, Call(TRUE, "register"))
    /\ UNCHANGED <<engineVars, storeVars, swSupported, pwaFlag, registered, rejected, pill>>

\* getRegistrations() resolved with no registration: Promise.all([]) is
\* resolved already, the call writes "0" and returns
AfterGetRegistrationsNone(i) ==
    /\ calls[i].at = "getRegistrations"
    /\ ~registered
    /\ pwaFlag' = Item("0")
    /\ pill' = setPill("Offline desactivado.", TRUE)
    /\ MoveTo(i, "done")
    /\ UNCHANGED <<engineVars, storeVars, swSupported, checked, registered, rejected>>

\* getRegistrations() resolved with the registration: r.unregister() starts
AfterGetRegistrationsSome(i) ==
    /\ calls[i].at = "getRegistrations"
    /\ registered
    /\ MoveTo(i, "unregister")
    /\ UNCHANGED <<engineVars, storeVars, swSupported, checked, pwaFlag, registered,
                   rejected, pill>>

\* the browser removes the registration
UnregisterSettles(i) ==
    /\ calls[i].at = "unregister"
    /\ registered' = FALSE
    /\ MoveTo(i, "unregistered")
    /\ UNCHANGED <<engineVars, storeVars, swSupported, checked, pwaFlag, rejected, pill>>

\* after await Promise.all(...): the call writes "0" and returns
AfterUnregister(i) ==
    /\ calls[i].at = "unregistered"
    /\ pwaFlag' = Item("0")
    /\ pill' = setPill("Offline desactivado.", TRUE)
    /\ MoveTo(i, "done")
    /\ UNCHANGED <<engineVars, storeVars, swSupported, checked, registered, rejected>>

\* the browser registers sw.js, or the registration fails
RegisterSettles(i, ok) ==
    /\ calls[i].at = "register"
    /\ registered' = (registered \/ ok)
    /\ rejected' = (rejected \/ ~ok)
    /\ MoveTo(i, IF ok THEN "registered" ELSE "rejectedRegister")
    /\ UNCHANGED <<engineVars, storeVars, swSupported, checked, pwaFlag, pill>>

\* after await register(...): the call writes "1" and returns
AfterRegister(i) ==
    /\ calls[i].at = "registered"
    /\ pwaFlag' = Item("1")
    /\ pill' = setPill("Offline activo.", TRUE)
    /\ MoveTo(i, "done")
    /\ UNCHANGED <<engineVars, storeVars, swSupported, checked, registered, rejected>>

\* catch(e): the call leaves LS_PWA as it is and returns
CatchRegister(i) ==
    /\ calls[i].at = "rejectedRegister"
    /\ pill' = setPill("Falha ao activar offline.", FALSE)
    /\ MoveTo(i, "done")
    /\ UNCHANGED <<engineVars, storeVars, swSupported, checked, pwaFlag, registered, rejected>>

\* the enableSW calls made so far
Started == 1..Len(calls)

NextSW ==
    \/ ToggleUnsupported
    \/ ToggleOff
    \/ ToggleOn
    \/ \E i \in Started : AfterGetRegistrationsNone(i)
    \/ \E i \in Started : AfterGetRegistrationsSome(i)
    \/ \E i \in Started : UnregisterSettles(i)
    \/ \E i \in Started : AfterUnregister(i)
    \/ \E i \in Started, ok \in BOOLEAN : RegisterSettles(i, ok)
    \/ \E i \in Started : AfterRegister(i)
    \/ \E i \in Started : CatchRegister(i)

SpecSW == InitSW /\ [][NextSW]_vars

(***************************************************************************)
(* Properties of the engine.                                               *)
(***************************************************************************)
\* the elements of a sequence
Range(f) == {f[i] : i \in DOMAIN f}

\* s with the red flags in R set and the others cleared
WithRedFlags(s, R) ==
    [k \in DOMAIN s |-> IF k \in RedFlagFields THEN k \in R ELSE s[k]]

\* s with the operational criteria in C set and the others cleared
WithCriteria(s, C) ==
    [k \in DOMAIN s |-> IF k \in CriteriaFields THEN k \in C ELSE s[k]]

\* C1: whatever the snapshot holds, the score computeRisk returns is an
\* integer between 0 and 100.
C1_ScoreInRange == Done => out.score \in 0..100

\* C1 witness: a snapshot whose accumulated total exceeds 100 was evaluated
\* and came out as 100.
C1_Witness == Done /\ accumulated(d) > 100 /\ out.score = 100

\* C2: when at least one of the five red flags is set, the score is at least
\* 85, the tier is the highest one with the high-risk badge, and the
\* explanation contains the red-flags note.
C2_RedFlagForcesVeryHigh ==
    (Done /\ \E k \in RedFlagFields : d[k]) =>
        /\ out.score >= 85
        /\ out.tier = "Muito alto"
        /\ out.badge = "ALTO RISCO"
        /\ <<"Ha red flags clinicas assinaladas">> \in Range(out.explain)

\* C2 witness: exactly one red flag is set on a snapshot whose accumulated
\* total is below 85, and the result is in the highest tier.
C2_Witness ==
    /\ Done
    /\ Cardinality({k \in RedFlagFields : d[k]}) = 1
    /\ accumulated(d) < 85
    /\ out.score = 85
    /\ out.tier = "Muito alto"

\* C3: the red-flag override is a floor: setting any non-empty set of red
\* flags on a snapshot without red flags gives max(score, 85), so a score
\* above 85 is kept.
C3_OverrideIsFloor ==
    Done =>
        LET base == finalScore(WithRedFlags(d, {}))
        IN  /\ redFlags(d) => out.score = Max(base, 85)
            /\ ~redFlags(d) =>
                 \A R \in (SUBSET RedFlagFields) \ {{}} :
                    finalScore(WithRedFlags(d, R)) = Max(out.score, 85)

\* C3 witness: a red flag is set on a snapshot that scores above 85 without
\* it, and the higher score is the one returned.
C3_Witness ==
    /\ Done
    /\ redFlags(d)
    /\ finalScore(WithRedFlags(d, {})) > 85
    /\ out.score = finalScore(WithRedFlags(d, {}))

\* the documented tier table: the tier and badge of each score range
DocumentedTier(score) ==
    CASE score \in 85..100 -> [tier |-> "Muito alto", badge |-> "ALTO RISCO"]
      [] score \in 65..84  -> [tier |-> "Alto", badge |-> "RISCO ^"]
      [] score \in 45..64  -> [tier |-> "Intermedio", badge |-> "RISCO <->"]
      [] score \in 0..44   -> [tier |-> "Baixo", badge |-> "RISCO v"]

\* C4: the tier and badge depend on the final score alone and follow the
\* four contiguous ranges 85..100, 65..84, 45..64, 0..44; the placeholder
\* tier is never returned.
C4_TierPartition ==
    /\ \A sc \in 0..100 : tierOf(sc) = DocumentedTier(sc)
    /\ Done =>
        /\ [tier |-> out.tier, badge |-> out.badge] = DocumentedTier(out.score)
        /\ out.tier # NoResult.tier
        /\ out.badge # NoResult.badge

\* C4 witness: a snapshot was evaluated to a score on the lower edge of the
\* second tier.
C4_Witness == Done /\ out.score \in 65..69 /\ out.tier = "Alto"

\* C5 as stated: with saturation 90 and oxygen "60" at 1-2 h the ratio is
\* 150, falls in the band below 150 and the factor adds 40 points.
C5_ScenarioA_Band40 ==
    (Done /\ d.spo2_1 = <<"9", "0">> /\ d.fio2_1 = <<"6", "0">>) =>
        /\ out.sf1 = FromInt(150)
        /\ Lt(out.sf1, FromInt(150))
        /\ scoreSteps(d)[1].pts = 40

\* C5 amended: with saturation 90 and oxygen "60" at 1-2 h the ratio is
\* exactly 150, which is not below 150: it falls in the band below 193 and
\* the factor adds 30 points, with its labelled entry among the top factors.
C5_ScenarioA_Band30 ==
    (Done /\ d.spo2_1 = <<"9", "0">> /\ d.fio2_1 = <<"6", "0">>) =>
        /\ out.sf1 = FromInt(150)
        /\ ~Lt(out.sf1, FromInt(150))
        /\ Lt(out.sf1, FromInt(193))
        /\ scoreSteps(d)[1] = Step(30, <<addFactor(30, <<"SF 1-2 h < 193", 150>>)>>)
        /\ <<"SF 1-2 h < 193", 150>> \in Range(out.topFactors)

\* C5 witness: scenario A itself was evaluated: 30 (ratio) + 6 + 3 (unknown
\* rates) + 10 (age below 6 months) = 49, tier intermediate.
C5_Witness ==
    Done /\ d = ScenarioA /\ out.sf1 = FromInt(150) /\ out.score = 49
         /\ out.tier = "Intermedio"

\* the same initiation oxygen written as a percentage and as a fraction
PercentAndFraction ==
    { << <<"4", "0">>, <<"0", ".", "4">> >>,
      << <<"6", "0">>, <<"0", ".", "6", "0">> >>,
      << <<"8", "0">>, <<"0", ".", "8">> >>,
      << <<"1", "0", "0">>, <<"1">> >> }

\* the points the documented ladder gives the fraction f
FractionLadder(f) ==
    IF Ge(f, Rat(8, 10)) THEN 8
    ELSE IF Ge(f, Rat(6, 10)) THEN 5
    ELSE IF Ge(f, Rat(4, 10)) THEN 3
    ELSE 1

\* C6: the initiation oxygen factor is scored on the normalized fraction, so
\* a snapshot that writes it as a percentage and the snapshot that writes
\* the same value as a fraction normalize alike and get the same score.
C6_PercentScoresAsFraction ==
    Done =>
        \A pf \in PercentAndFraction :
            d.fio2_0 = pf[1] =>
                /\ parseFiO2(pf[1]) = parseFiO2(pf[2])
                /\ scoreFiO2(d.fio2_0).pts = FractionLadder(parseFiO2(d.fio2_0))
                /\ finalScore([d EXCEPT !.fio2_0 = pf[2]]) = out.score

\* C7 as stated: parseFiO2 returns null or a fraction between 0 and 1.
C7_FractionInUnitInterval ==
    Done =>
        \A k \in {"fio2_0", "fio2_1"} :
            LET r == parseFiO2(d[k])
            IN  IsNull(r) \/ (Ge(r, FromInt(0)) /\ Le(r, FromInt(1)))

\* C7 amended: parseFiO2 returns null exactly when the text does not parse;
\* a value n with 1 < n <= 100 comes out as n/100 and every other value
\* comes out unchanged, so the result lies in [0,1] exactly when
\* 0 <= n <= 100; the 1-2 h ratio is the saturation divided by that result.
C7_ParseFiO2 ==
    Done =>
        /\ \A k \in {"fio2_0", "fio2_1"} :
            LET n == safeNum(d[k])
                r == parseFiO2(d[k])
                percent == Gt(n, FromInt(1)) /\ Le(n, FromInt(100))
            IN  /\ IsNull(r) <=> IsNull(n)
                /\ ~IsNull(n) =>
                    /\ percent => Mul(r, FromInt(100)) = n
                    /\ ~percent => r = n
                    /\ (Ge(r, FromInt(0)) /\ Le(r, FromInt(1)))
                          <=> (Ge(n, FromInt(0)) /\ Le(n, FromInt(100)))
        /\ ~IsNull(out.sf1) =>
              Mul(out.sf1, parseFiO2(d.fio2_1)) = safeNum(d.spo2_1)

\* C7 witness: an oxygen value above 100 was evaluated: it came out above 1
\* and the ratio was computed with it.
C7_Witness ==
    /\ Done
    /\ Gt(safeNum(d.fio2_1), FromInt(100))
    /\ Gt(parseFiO2(d.fio2_1), FromInt(1))
    /\ ~IsNull(out.sf1)

\* the number of cuts 150, 193, 220, 260 at or below the ratio x
Band(x) == Cardinality({c \in {150, 193, 220, 260} : Ge(x, FromInt(c))})

\* C8: between two snapshots that differ only in the 1-2 h saturation and
\* oxygen, both with a known ratio, the one with the lower ratio never
\* scores lower, and the scores are equal unless a cut is crossed.
C8_MonotoneInSF1 ==
    (Done /\ ~IsNull(out.sf1)) =>
        \A sp \in RawValues("spo2_1"), fi \in RawValues("fio2_1") :
            LET b   == [d EXCEPT !.spo2_1 = sp, !.fio2_1 = fi]
                sfb == calcSF(sp, fi)
            IN  ~IsNull(sfb) =>
                    /\ Le(out.sf1, sfb) => out.score >= finalScore(b)
                    /\ Le(sfb, out.sf1) => finalScore(b) >= out.score
                    /\ Band(sfb) = Band(out.sf1) => finalScore(b) = out.score

\* C8 witness: a snapshot with ratio 259 was evaluated; ratio 258 scores the
\* same and ratio 260 scores strictly less.
C8_Witness ==
    /\ Done
    /\ out.sf1 = FromInt(259)
    /\ d.fio2_1 = <<"0", ".", "2", "5">>
    /\ finalScore([d EXCEPT !.spo2_1 = <<"6", "4", ".", "5">>]) = out.score
    /\ finalScore([d EXCEPT !.spo2_1 = <<"6", "5">>]) < out.score

\* C9: the operational-criteria flags never change the score, tier, badge,
\* derived metrics, oxygenation context, top factors, summary or brief;
\* only the explanation and the actions may differ.
C9_CriteriaNotScored ==
    Done =>
        \A C \in SUBSET CriteriaFields :
            LET r == computeRisk(WithCriteria(d, C))
            IN  /\ r.score = out.score
                /\ r.tier = out.tier
                /\ r.badge = out.badge
                /\ r.sf0 = out.sf0 /\ r.sf1 = out.sf1
                /\ r.drrPct = out.drrPct /\ r.dhrPct = out.dhrPct
                /\ r.dpco2 = out.dpco2
                /\ r.oxyCtx = out.oxyCtx
                /\ r.topFactors = out.topFactors
                /\ r.summary = out.summary
                /\ r.brief = out.brief

\* C9 witness: a snapshot with an operational criterion set was evaluated,
\* below the red-flag floor, and its explanation and actions mention it while
\* those of the snapshot without criteria do not.
C9_Witness ==
    /\ Done
    /\ operationalCriteria(d)
    /\ out.score < 85
    /\ out.explain # computeRisk(WithCriteria(d, {})).explain
    /\ out.actions # computeRisk(WithCriteria(d, {})).actions

\* the ratio sf is null exactly when a prerequisite is missing, else s / f
RatioDefined(sf, spo2, fio2) ==
    LET s == safeNum(spo2)
        f == parseFiO2(fio2)
    IN  /\ IsNull(sf) <=> (IsNull(s) \/ IsNull(f) \/ f.n <= 0)
        /\ ~IsNull(sf) => Mul(sf, f) = s

\* the change p is null exactly when an operand is missing or the old value
\* is 0, else (new - old) / old * 100
ChangeDefined(p, newV, oldV) ==
    LET a == safeNum(newV)
        b == safeNum(oldV)
    IN  /\ IsNull(p) <=> (IsNull(a) \/ IsNull(b) \/ b.n = 0)
        /\ ~IsNull(p) => Mul(p, b) = Mul(Sub(a, b), FromInt(100))

\* C10: each derived metric is null exactly when its prerequisites are
\* missing and has the documented value otherwise; an unchanged respiratory
\* rate gives 0 percent and 18 points.
C10_DerivedMetrics ==
    Done =>
        /\ RatioDefined(out.sf0, d.spo2_0, d.fio2_0)
        /\ RatioDefined(out.sf1, d.spo2_1, d.fio2_1)
        /\ ChangeDefined(out.drrPct, d.rr_1, d.rr_0)
        /\ ChangeDefined(out.dhrPct, d.hr_1, d.hr_0)
        /\ LET a == safeNum(d.rr_1)
               b == safeNum(d.rr_0)
           IN  (~IsNull(a) /\ a = b /\ b.n # 0) =>
                    /\ out.drrPct = FromInt(0)
                    /\ scoreSteps(d)[2].pts = 18
        /\ LET p0 == safeNum(d.pco2_0)
               p1 == safeNum(d.pco2_1)
           IN  /\ IsNull(out.dpco2) <=> (IsNull(p0) \/ IsNull(p1))
               /\ ~IsNull(out.dpco2) => Add(out.dpco2, p0) = p1

\* C10 witness: a snapshot with an unchanged, non-zero respiratory rate was
\* evaluated to a change of 0 percent with the "not improved" factor listed.
C10_Witness ==
    /\ Done
    /\ ~IsNull(safeNum(d.rr_0))
    /\ safeNum(d.rr_1) = safeNum(d.rr_0)
    /\ out.drrPct = FromInt(0)
    /\ <<"FR nao melhorou / piorou">> \in Range(out.topFactors)

\* the labelled factors of s in evaluation order, the red-flags entry last
factorsOf(s) == overrideFactors(AllFactors(scoreSteps(s)), redFlags(s))

\* the place of the i-th pushed factor in the ranking: one more than the
\* number of factors that are heavier, or as heavy and pushed earlier
Place(fs, i) ==
    1 + Cardinality({j \in 1..Len(fs) :
                        fs[j].w > fs[i].w \/ (fs[j].w = fs[i].w /\ j < i)})

\* C11: topFactors holds the labels of the factors ranked by weight, heaviest
\* first, equal weights in evaluation order, cut to three; with a red flag
\* set the red-flags entry comes first.
C11_TopFactorsRanking ==
    Done =>
        LET fs == factorsOf(d)
        IN  /\ Len(out.topFactors) = Min(3, Len(fs))
            /\ \A i \in 1..Len(fs) :
                  Place(fs, i) <= 3 => out.topFactors[Place(fs, i)] = fs[i].label
            /\ redFlags(d) => out.topFactors[1] = <<"Red flags clinicas">>

\* C11 witness: the ratio 220-259, age below 6 months and type 1 factors, all
\* of weight 10, were listed in the order the source evaluates them.
C11_Witness ==
    /\ Done
    /\ out.topFactors = << <<"SF 1-2 h 220-259", 240>>, <<"Idade < 6 meses">>,
                           <<"IRA hipoxemica (tipo 1)">> >>

\* C12: an unknown value adds a fixed amount and no labelled factor: 10, 6, 3
\* and 4 points for an unknown 1-2 h ratio, respiratory-rate change,
\* heart-rate change and age; nothing for an unknown initiation oxygen,
\* severity score, inspiratory pressure, CO2 delta and pH trend.  The empty
\* form without red flags scores 23, tier low, with no top factor.
C12_UnknownFallbacks ==
    Done =>
        LET steps == scoreSteps(d)
        IN  /\ IsNull(out.sf1) => steps[1] = Step(10, <<>>)
            /\ IsNull(out.drrPct) => steps[2] = Step(6, <<>>)
            /\ IsNull(out.dhrPct) => steps[3] = Step(3, <<>>)
            /\ IsNull(toMonths(d.ageValue, d.ageUnit)) => steps[4] = Step(4, <<>>)
            /\ IsNull(parseFiO2(d.fio2_0)) => steps[7] = Step(0, <<>>)
            /\ IsNull(safeNum(d.prism)) => steps[8] = Step(0, <<>>)
            /\ IsNull(safeNum(d.ipap_1)) => steps[9] = Step(0, <<>>)
            /\ IsNull(out.dpco2) => steps[10] = Step(0, <<>>)
            /\ (IsNull(safeNum(d.ph_0)) \/ IsNull(safeNum(d.ph_1)))
                  => steps[11] = Step(0, <<>>)
            /\ (\A k \in NumericFields : IsNull(safeNum(d[k])))
                  => /\ accumulated(d) = 23 + steps[5].pts + steps[6].pts
                     /\ Len(factorsOf(d)) =
                            Len(steps[5].factors) + Len(steps[6].factors)
                            + (IF redFlags(d) THEN 1 ELSE 0)
            /\ d = EmptyForm
                  => /\ out.score = 23
                     /\ out.tier = "Baixo"
                     /\ out.topFactors = <<>>

\* C12 witness: the empty form was evaluated to 23, tier low, no top factor.
C12_Witness ==
    /\ Done
    /\ d = EmptyForm
    /\ \A k \in NumericFields : IsNull(safeNum(d[k]))
    /\ out.score = 23
    /\ out.tier = "Baixo"
    /\ out.topFactors = <<>>

\* C13: after any sequence of evaluations the stored history holds the last
\* min(n, 10) pushed entries, newest first; the oldest is dropped when an
\* 11th is pushed.
C13_HistoryNewestFirst ==
    LET h == loadHistory(history)
        n == Len(pushed)
    IN  /\ Len(h) = Min(n, 10)
        /\ \A i \in 1..Len(h) : h[i] = pushed[n - i + 1]

\* C13 witness: eleven entries were pushed; the history holds ten, the
\* eleventh first and the second last, and the first was dropped.
C13_Witness ==
    LET h == loadHistory(history)
    IN  /\ Len(pushed) = 11
        /\ Len(h) = 10
        /\ h[1] = pushed[11]
        /\ h[10] = pushed[2]
        /\ pushed[1] \notin Range(h)
        /\ pushed[1].data # pushed[11].data

\* C14: once every enableSW call has returned, LS_PWA is the state the last
\* toggle asked for, and it is "1" only if a service worker is registered
\* (with service workers supported and no registration rejected).
C14_FlagFollowsLastToggle ==
    (swSupported /\ ~rejected /\ calls # <<>> /\ Pending = {}) =>
        /\ pwaFlag = Item(IF checked THEN "1" ELSE "0")
        /\ (pwaFlag = Item("1") => registered)
====
